---------------------------- MODULE Spec2Model ----------------------------
(***************************************************************************)
(* Model of blender_importASE/__init__.py: the add-on's register() and     *)
(* unregister() functions, check_dependency(), the preferences panel and   *)
(* the ImportASEMolecule operator (invoke / execute).                      *)
(*                                                                         *)
(* The program is single threaded: the host calls one function at a time.  *)
(* pc is the source line the running function is about to execute, or      *)
(* "idle" between calls.  Host calls (bpy.utils.register_class,            *)
(* unregister_class, Menu.append / Menu.remove, subprocess.check_call,     *)
(* import) are modelled at the line that makes them, with the outcome the  *)
(* host gives: register_class raises ValueError for a class that is        *)
(* already registered, unregister_class raises RuntimeError for a class    *)
(* that is not (the exception line 226 catches), Menu.remove ignores a     *)
(* function that is not in the menu.                                       *)
(***************************************************************************)
EXTENDS Integers, Sequences, FiniteSets, TLC

\* Longest file list the file selector hands to the operator.
MaxFiles == 2
\* Number of completed register()/unregister() calls remembered in history.
HistLen == 3

VARIABLES
    pc,             \* "idle" or the line about to run
    classes,        \* host class registry, in registration order
    draw_funcs,     \* draw functions of bpy.types.TOPBAR_MT_file_import
    install_failed, \* ASEAddonPreferences.install_failed
    ase_importable, \* whether `import ase` succeeds in this process
    sys_path,       \* sys.path
    dependency,     \* register()'s local `dependency`
    cd,             \* what the current/last check_dependency() call did
    history,        \* the last HistLen completed register()/unregister() calls
    self,           \* the ImportASEMolecule instance being invoked / executed
    calls,          \* the import_ase_molecule calls made by the running execute
    opResult        \* what the last operator method returned

vars == <<pc, classes, draw_funcs, install_failed, ase_importable, sys_path,
          dependency, cd, history, self, calls, opResult>>

regVars == <<classes, draw_funcs, install_failed, ase_importable, sys_path,
             dependency, cd, history>>
opVars == <<self, calls, opResult>>

-----------------------------------------------------------------------------
(* Helpers *)

Count(s, x) == Cardinality({k \in DOMAIN s : s[k] = x})

Contains(s, x) == \E k \in DOMAIN s : s[k] = x

\* list.remove(x): drops the first occurrence of x
RECURSIVE RemoveFirst(_, _)
RemoveFirst(s, x) ==
    IF s = <<>> THEN <<>>
    ELSE IF Head(s) = x THEN Tail(s)
    ELSE <<Head(s)>> \o RemoveFirst(Tail(s), x)

\* a finished register()/unregister() call is appended to the history
Finished(call, outcome) ==
    LET h == Append(history, [call |-> call, outcome |-> outcome])
    IN  IF Len(h) > HistLen THEN Tail(h) ELSE h

LastCall == IF history = <<>> THEN [call |-> "none", outcome |-> "none"]
            ELSE history[Len(history)]

-----------------------------------------------------------------------------
(* Names of the program *)

ASEAddonPreferences == "ASEAddonPreferences"
ImportASEMolecule == "ImportASEMolecule"
menu_func_import == "menu_func_import"
\* os.path.join(bpy.utils.script_path_user(), "modules")
install_path == "modules"

FailedLabel == "ASE installation failed. Please check your internet connection."
SuccessLabel == "ASE installation successful."

\* ASEAddonPreferences.draw: the label the preferences panel shows
ASEAddonPreferences_draw ==
    IF install_failed THEN FailedLabel ELSE SuccessLabel

NoCd == [start |-> "none", installer |-> "none", reimport |-> "none",
         runs |-> 0, path0 |-> <<>>]

NoSelf == [state |-> "none"]

-----------------------------------------------------------------------------
(* The operator's properties *)

Representations == {"Balls'n'Sticks", "Licorice", "VDW", "bonds_fromnodes", "nodes"}

\* the declared defaults; floats are kept as decimal strings
DefaultProps ==
    [scale |-> "0.5", resolution |-> 16, colorbonds |-> FALSE, fix_bonds |-> TRUE,
     color |-> "0.6", unit_cell |-> FALSE, representation |-> "nodes",
     read_density |-> TRUE, zero_cell |-> FALSE, animate |-> TRUE,
     imageslice |-> 1, overwrite |-> TRUE, outline |-> TRUE,
     add_supercell |-> TRUE]

\* every default changed
OtherProps ==
    [scale |-> "2.0", resolution |-> 8, colorbonds |-> TRUE, fix_bonds |-> FALSE,
     color |-> "1.0", unit_cell |-> TRUE, representation |-> "VDW",
     read_density |-> FALSE, zero_cell |-> TRUE, animate |-> FALSE,
     imageslice |-> 5, overwrite |-> FALSE, outline |-> FALSE,
     add_supercell |-> FALSE]

\* the property values the user may have set in the file selector
PropChoices ==
    {OtherProps} \cup
    {[DefaultProps EXCEPT !.representation = r, !.overwrite = o, !.animate = a] :
        r \in {"nodes", "Licorice", "VDW"}, o \in BOOLEAN, a \in BOOLEAN}

\* strings are sequences of characters
Directories == {<<"/", "d", "/">>, <<"/", "d">>}
FileNames == {<<"a">>, <<"b", ".", "x">>}

RECURSIVE SeqsUpTo(_, _)
SeqsUpTo(S, n) ==
    IF n = 0 THEN {<<>>}
    ELSE LET shorter == SeqsUpTo(S, n - 1)
         IN  shorter \cup {Append(s, x) : s \in shorter, x \in S}

FileLists == SeqsUpTo({[name |-> n] : n \in FileNames}, MaxFiles)

\* os.path.join(a, b) on a POSIX host
join(a, b) ==
    IF b # <<>> /\ Head(b) = "/" THEN b
    ELSE IF a = <<>> \/ a[Len(a)] = "/" THEN a \o b
    ELSE a \o <<"/">> \o b


-----------------------------------------------------------------------------
(* The state after the module is imported, before the host calls register() *)

Init ==
    /\ pc = "idle"
    /\ classes = <<>>
    /\ draw_funcs = <<>>
    /\ install_failed = FALSE
    /\ ase_importable \in BOOLEAN
    /\ sys_path \in {<<"site-packages">>, <<"site-packages", install_path>>}
    /\ dependency = "none"
    /\ cd = NoCd
    /\ history = <<>>
    /\ self = NoSelf
    /\ calls = <<>>
    /\ opResult = "none"

-----------------------------------------------------------------------------
(* register() *)

\* line 214: bpy.utils.register_class(ASEAddonPreferences), the first
\* statement of a register() call
register_L214 ==
    /\ pc = "idle"
    /\ dependency' = "none"
    /\ IF Contains(classes, ASEAddonPreferences)
       THEN \* ValueError: already registered; register() aborts
            /\ pc' = "idle"
            /\ history' = Finished("register", "ValueError")
            /\ UNCHANGED classes
       ELSE /\ classes' = Append(classes, ASEAddonPreferences)
            /\ pc' = "L188"
            /\ UNCHANGED history
    /\ UNCHANGED <<draw_funcs, install_failed, ase_importable, sys_path, cd>>
    /\ UNCHANGED opVars

-----------------------------------------------------------------------------
(* check_dependency(), called from line 215 *)

\* lines 187-190: try: import ase; return True / except ImportError
check_dependency_L188 ==
    /\ pc = "L188"
    /\ cd' = [start |-> IF ase_importable THEN "ok" ELSE "fail",
              installer |-> "none", reimport |-> "none",
              runs |-> 0, path0 |-> sys_path]
    /\ IF ase_importable
       THEN dependency' = TRUE /\ pc' = "L216"
       ELSE dependency' = dependency /\ pc' = "L196"
    /\ UNCHANGED <<classes, draw_funcs, install_failed, ase_importable,
                   sys_path, history>>
    /\ UNCHANGED opVars

\* lines 193-196: subprocess.check_call([python, "-m", "pip", "install", ...]).
\* Exit status zero: go on; non-zero: CalledProcessError (handled at 201);
\* the interpreter cannot be started: OSError, which no handler catches.
check_dependency_L196 ==
    /\ pc = "L196"
    /\ \E result \in {"zero", "nonzero", "oserror"} :
        /\ cd' = [cd EXCEPT !.installer = result, !.runs = @ + 1]
        /\ pc' = CASE result = "zero" -> "L197"
                   [] result = "nonzero" -> "L201"
                   [] OTHER -> "idle"
        /\ history' = IF result = "oserror"
                      THEN Finished("register", "OSError")
                      ELSE history
    /\ UNCHANGED <<classes, draw_funcs, install_failed, ase_importable,
                   sys_path, dependency>>
    /\ UNCHANGED opVars

\* a faulty variant of lines 197-199: the path is appended without the membership test
check_dependency_L197_always_append ==
    /\ pc = "L197"
    /\ sys_path' = Append(sys_path, install_path)
    /\ pc' = "L200"
    /\ UNCHANGED <<classes, draw_funcs, install_failed, ase_importable,
                   dependency, cd, history>>
    /\ UNCHANGED opVars

\* lines 197-199: if install_path not in sys.path: sys.path.append(install_path)
check_dependency_L197 ==
    /\ pc = "L197"
    /\ sys_path' = IF ~Contains(sys_path, install_path)
                   THEN Append(sys_path, install_path)
                   ELSE sys_path
    /\ pc' = "L200"
    /\ UNCHANGED <<classes, draw_funcs, install_failed, ase_importable,
                   dependency, cd, history>>
    /\ UNCHANGED opVars

\* lines 200, 207-208: import ase after the install; on success
\* print("Installed ASE"); return True, else ImportError (handled at 204)
check_dependency_L200 ==
    /\ pc = "L200"
    /\ \E ok \in BOOLEAN :
        /\ ase_importable' = ok
        /\ cd' = [cd EXCEPT !.reimport = IF ok THEN "ok" ELSE "fail"]
        /\ IF ok
           THEN dependency' = TRUE /\ pc' = "L216"
           ELSE dependency' = dependency /\ pc' = "L204"
    /\ UNCHANGED <<classes, draw_funcs, install_failed, sys_path, history>>
    /\ UNCHANGED opVars

\* a faulty variant of lines 201-203: the handler runs the installer again
check_dependency_L201_retry ==
    /\ pc = "L201"
    /\ pc' = "L196"
    /\ UNCHANGED regVars
    /\ UNCHANGED opVars

\* lines 201-203: except subprocess.CalledProcessError: print(...); return False
check_dependency_L201 ==
    /\ pc = "L201"
    /\ dependency' = FALSE
    /\ pc' = "L216"
    /\ UNCHANGED <<classes, draw_funcs, install_failed, ase_importable,
                   sys_path, cd, history>>
    /\ UNCHANGED opVars

\* a faulty variant of lines 204-206: the handler falls through to `return True`
check_dependency_L204_fallthrough ==
    /\ pc = "L204"
    /\ dependency' = TRUE
    /\ pc' = "L216"
    /\ UNCHANGED <<classes, draw_funcs, install_failed, ase_importable,
                   sys_path, cd, history>>
    /\ UNCHANGED opVars

\* lines 204-206: except ImportError: print(...); return False
check_dependency_L204 ==
    /\ pc = "L204"
    /\ dependency' = FALSE
    /\ pc' = "L216"
    /\ UNCHANGED <<classes, draw_funcs, install_failed, ase_importable,
                   sys_path, cd, history>>
    /\ UNCHANGED opVars

-----------------------------------------------------------------------------
(* register(), continued *)

\* a faulty variant of line 216: the test is inverted
register_L216_inverted ==
    /\ pc = "L216"
    /\ pc' = IF dependency = TRUE THEN "L220" ELSE "L217"
    /\ UNCHANGED regVars
    /\ UNCHANGED opVars

\* line 216: if dependency:
register_L216 ==
    /\ pc = "L216"
    /\ pc' = IF dependency = TRUE THEN "L217" ELSE "L220"
    /\ UNCHANGED regVars
    /\ UNCHANGED opVars

\* line 217: bpy.utils.register_class(ImportASEMolecule)
register_L217 ==
    /\ pc = "L217"
    /\ IF Contains(classes, ImportASEMolecule)
       THEN \* ValueError: already registered; register() aborts
            /\ pc' = "idle"
            /\ history' = Finished("register", "ValueError")
            /\ UNCHANGED classes
       ELSE /\ classes' = Append(classes, ImportASEMolecule)
            /\ pc' = "L218"
            /\ UNCHANGED history
    /\ UNCHANGED <<draw_funcs, install_failed, ase_importable, sys_path,
                   dependency, cd>>
    /\ UNCHANGED opVars

\* line 218: bpy.types.TOPBAR_MT_file_import.append(menu_func_import); return
register_L218 ==
    /\ pc = "L218"
    /\ draw_funcs' = Append(draw_funcs, menu_func_import)
    /\ pc' = "idle"
    /\ history' = Finished("register", "returned")
    /\ UNCHANGED <<classes, install_failed, ase_importable, sys_path,
                   dependency, cd>>
    /\ UNCHANGED opVars

\* lines 220-221: prefs = ...addons[__name__].preferences;
\* prefs.install_failed = True; return
register_L220 ==
    /\ pc = "L220"
    /\ install_failed' = TRUE
    /\ pc' = "idle"
    /\ history' = Finished("register", "returned")
    /\ UNCHANGED <<classes, draw_funcs, ase_importable, sys_path,
                   dependency, cd>>
    /\ UNCHANGED opVars

-----------------------------------------------------------------------------
(* unregister() *)

\* a faulty variant of lines 224-227: the operator class is not unregistered
unregister_L225_skipped ==
    /\ pc = "idle"
    /\ pc' = "L228"
    /\ UNCHANGED regVars
    /\ UNCHANGED opVars

\* lines 224-227: try: bpy.utils.unregister_class(ImportASEMolecule)
\* except RuntimeError: print(...), the first statement of an unregister() call
unregister_L225 ==
    /\ pc = "idle"
    /\ classes' = IF Contains(classes, ImportASEMolecule)
                  THEN RemoveFirst(classes, ImportASEMolecule)
                  ELSE classes   \* RuntimeError, caught at line 226
    /\ pc' = "L228"
    /\ UNCHANGED <<draw_funcs, install_failed, ase_importable, sys_path,
                   dependency, cd, history>>
    /\ UNCHANGED opVars

\* a faulty variant of line 228: the menu entry is left in the menu
unregister_L228_skipped ==
    /\ pc = "L228"
    /\ pc' = "L229"
    /\ UNCHANGED regVars
    /\ UNCHANGED opVars

\* line 228: bpy.types.TOPBAR_MT_file_import.remove(menu_func_import)
unregister_L228 ==
    /\ pc = "L228"
    /\ draw_funcs' = RemoveFirst(draw_funcs, menu_func_import)
    /\ pc' = "L229"
    /\ UNCHANGED <<classes, install_failed, ase_importable, sys_path,
                   dependency, cd, history>>
    /\ UNCHANGED opVars

\* line 229: bpy.utils.unregister_class(ASEAddonPreferences); return.
\* install_failed is stored in the host's add-on preferences and keeps its
\* value while the class is unregistered (see preferences_removed).
unregister_L229 ==
    /\ pc = "L229"
    /\ IF Contains(classes, ASEAddonPreferences)
       THEN /\ classes' = RemoveFirst(classes, ASEAddonPreferences)
            /\ history' = Finished("unregister", "returned")
       ELSE \* RuntimeError: not registered; nothing catches it
            /\ history' = Finished("unregister", "RuntimeError")
            /\ UNCHANGED classes
    /\ pc' = "idle"
    /\ UNCHANGED <<draw_funcs, install_failed, ase_importable, sys_path,
                   dependency, cd>>
    /\ UNCHANGED opVars

\* line 176: install_failed has default False.  When the user disables the
\* add-on the host drops its stored preferences after unregister(), and the
\* next register() starts from the default; a script reload or a restart
\* keeps the stored value.
preferences_removed ==
    /\ pc = "idle"
    /\ ~Contains(classes, ASEAddonPreferences)
    /\ install_failed = TRUE
    /\ install_failed' = FALSE
    /\ UNCHANGED <<pc, classes, draw_funcs, ase_importable, sys_path,
                   dependency, cd, history>>
    /\ UNCHANGED opVars

-----------------------------------------------------------------------------
(* ImportASEMolecule *)

\* the keyword arguments of the import_ase_molecule call, lines 159-165
KwArgs(o) ==
    [resolution |-> o.resolution,
     color |-> o.color, colorbonds |-> o.colorbonds, fix_bonds |-> o.fix_bonds,
     scale |-> o.scale,
     unit_cell |-> o.unit_cell, representation |-> o.representation,
     read_density |-> o.read_density,
     shift_cell |-> o.zero_cell, imageslice |-> o.imageslice,
     animate |-> o.animate, outline |-> o.outline,
     overwrite |-> o.overwrite, add_supercell |-> o.add_supercell]

\* lines 169-171: invoke: context.window_manager.fileselect_add(self);
\* return {'RUNNING_MODAL'}.  The host only runs a registered operator.
invoke ==
    /\ pc = "idle"
    /\ Contains(classes, ImportASEMolecule)
    /\ self' = [props |-> DefaultProps, directory |-> <<>>, files |-> <<>>,
                entry |-> DefaultProps, i |-> 1]
    /\ calls' = <<>>
    /\ opResult' = "RUNNING_MODAL"
    /\ pc' = "modal"
    /\ UNCHANGED regVars

\* the host's file selector is confirmed: it stores the directory, the
\* selected files (lines 120-129) and the properties set in the panel
\* (lines 132-147) on the operator and calls execute
fileselect_execute ==
    /\ pc = "modal"
    /\ \E p \in PropChoices, d \in Directories, fs \in FileLists :
        self' = [props |-> p, directory |-> d, files |-> fs,
                 entry |-> p, i |-> 1]
    /\ calls' = <<>>
    /\ opResult' = "none"
    /\ pc' = "L151"
    /\ UNCHANGED regVars

\* the host's file selector is cancelled: execute is not called
fileselect_cancel ==
    /\ pc = "modal"
    /\ self' = NoSelf
    /\ opResult' = "CANCELLED"
    /\ pc' = "idle"
    /\ UNCHANGED calls
    /\ UNCHANGED regVars

\* a faulty variant of lines 151-166: the full path is passed as the file name
execute_L151_path_as_name ==
    /\ pc = "L151"
    /\ IF self.i <= Len(self.files)
       THEN LET file == self.files[self.i]
                filepath == join(self.directory, file.name)
            IN  /\ calls' = Append(calls, [filepath |-> filepath,
                                          filename |-> filepath,
                                          kwargs |-> KwArgs(self.props)])
                /\ self' = [self EXCEPT !.i = @ + 1]
                /\ pc' = "L151"
       ELSE /\ pc' = "L167"
            /\ UNCHANGED <<self, calls>>
    /\ UNCHANGED opResult
    /\ UNCHANGED regVars

\* a faulty variant of lines 151-166, the behaviour the comment at lines 153-154
\* describes: representation is overwritten with "nodes" for animations
execute_L151_overwrite ==
    /\ pc = "L151"
    /\ IF self.i <= Len(self.files)
       THEN LET file == self.files[self.i]
                filepath == join(self.directory, file.name)
                props == IF self.props.overwrite /\ self.props.animate
                         THEN [self.props EXCEPT !.representation = "nodes"]
                         ELSE self.props
            IN  /\ calls' = Append(calls, [filepath |-> filepath,
                                          filename |-> file.name,
                                          kwargs |-> KwArgs(props)])
                /\ self' = [self EXCEPT !.i = @ + 1]
                /\ pc' = "L151"
       ELSE /\ pc' = "L167"
            /\ UNCHANGED <<self, calls>>
    /\ UNCHANGED opResult
    /\ UNCHANGED regVars

\* lines 151-166: one turn of `for file in self.files`: the next file's
\* import_ase_molecule call, or the end of the loop
execute_L151 ==
    /\ pc = "L151"
    /\ IF self.i <= Len(self.files)
       THEN LET file == self.files[self.i]
                filepath == join(self.directory, file.name)
            IN  /\ calls' = Append(calls, [filepath |-> filepath,
                                          filename |-> file.name,
                                          kwargs |-> KwArgs(self.props)])
                /\ self' = [self EXCEPT !.i = @ + 1]
                /\ pc' = "L151"
       ELSE /\ pc' = "L167"
            /\ UNCHANGED <<self, calls>>
    /\ UNCHANGED opResult
    /\ UNCHANGED regVars

\* line 167: return {"FINISHED"}.  The host keeps the finished operator
\* (bl_options REGISTER, line 31) until the next one is invoked.
execute_L167 ==
    /\ pc = "L167"
    /\ opResult' = "FINISHED"
    /\ pc' = "idle"
    /\ UNCHANGED <<self, calls>>
    /\ UNCHANGED regVars

-----------------------------------------------------------------------------

Next ==
    \/ register_L214
    \/ check_dependency_L188
    \/ check_dependency_L196
    \/ check_dependency_L197
    \/ check_dependency_L200
    \/ check_dependency_L201
    \/ check_dependency_L204
    \/ register_L216
    \/ register_L217
    \/ register_L218
    \/ register_L220
    \/ unregister_L225
    \/ unregister_L228
    \/ unregister_L229
    \/ preferences_removed
    \/ invoke
    \/ fileselect_execute
    \/ fileselect_cancel
    \/ execute_L151
    \/ execute_L167

Spec == Init /\ [][Next]_vars

-----------------------------------------------------------------------------
(* Properties *)

OperatorRegistered == Contains(classes, ImportASEMolecule)
PreferencesRegistered == Contains(classes, ASEAddonPreferences)
MenuEntryPresent == Contains(draw_funcs, menu_func_import)

\* the last completed register()/unregister() call was a register() that
\* returned normally, and nothing has started since
RegisterReturned ==
    /\ pc = "idle"
    /\ LastCall.call = "register"
    /\ LastCall.outcome = "returned"

\* C1: when register() finishes after check_dependency() returned False, the
\* operator class is not registered, menu_func_import is not in the import
\* menu, install_failed is True and the preferences panel draws the failure
\* label, not the success label.
C1_FailedDependencyDisablesImport ==
    (RegisterReturned /\ dependency = FALSE) =>
        /\ ~OperatorRegistered
        /\ ~MenuEntryPresent
        /\ install_failed = TRUE
        /\ ASEAddonPreferences_draw = FailedLabel
        /\ ASEAddonPreferences_draw # SuccessLabel

C1_Witness ==
    /\ RegisterReturned
    /\ dependency = FALSE
    /\ cd.installer = "zero"
    /\ cd.reimport = "fail"
    /\ PreferencesRegistered

\* C2: the operator class is registered at most once and the import menu holds
\* at most one menu_func_import entry in every state, whatever register() and
\* unregister() calls were made; right after a register() whose dependency
\* check succeeded there is exactly one of each.
C2_RegisteredExactlyOnce ==
    /\ Count(classes, ImportASEMolecule) <= 1
    /\ Count(draw_funcs, menu_func_import) <= 1
    /\ (RegisterReturned /\ dependency = TRUE) =>
        /\ Count(classes, ImportASEMolecule) = 1
        /\ Count(draw_funcs, menu_func_import) = 1

\* a second successful register() after an unregister(), and then a repeated
\* register() with no unregister() in between
C2_Witness ==
    /\ pc = "idle"
    /\ Len(history) >= 3
    /\ history[Len(history) - 2] = [call |-> "unregister", outcome |-> "returned"]
    /\ history[Len(history) - 1] = [call |-> "register", outcome |-> "returned"]
    /\ history[Len(history)] = [call |-> "register", outcome |-> "ValueError"]
    /\ Count(classes, ImportASEMolecule) = 1
    /\ Count(draw_funcs, menu_func_import) = 1

\* C3: unregister() is idempotent and does not raise: after a register() that
\* returned, two unregister() calls in a row both return normally and leave
\* no operator class, no menu entry and no preferences class registered.
C3_UnregisterIdempotent ==
    LET n == Len(history)
    IN  (/\ pc = "idle"
         /\ n >= 3
         /\ history[n - 2] = [call |-> "register", outcome |-> "returned"]
         /\ history[n - 1].call = "unregister"
         /\ history[n].call = "unregister")
        => /\ history[n - 1].outcome = "returned"
           /\ history[n].outcome = "returned"
           /\ classes = <<>>
           /\ draw_funcs = <<>>

\* C4: check_dependency() returns True exactly when ase was importable at the
\* start or the installer exited zero and ase was importable afterwards; a
\* non-zero installer exit and a failed import after the install both give the
\* result False, and neither ends the call with an exception.
C4_FailuresBecomeFalse ==
    /\ (pc = "L216") =>
        /\ dependency \in BOOLEAN
        /\ (dependency = TRUE) <=>
              (cd.start = "ok" \/ (cd.installer = "zero" /\ cd.reimport = "ok"))
        /\ (cd.start = "fail" /\ cd.installer = "nonzero") => dependency = FALSE
        /\ (cd.installer = "zero" /\ cd.reimport = "fail") => dependency = FALSE
    /\ (pc = "idle" /\ LastCall.call = "register"
            /\ LastCall.outcome \notin {"returned", "ValueError"}) =>
        (cd.installer \notin {"zero", "nonzero"} /\ cd.reimport = "none")

C4_Witness ==
    /\ pc = "L216"
    /\ cd.installer = "zero"
    /\ cd.reimport = "fail"
    /\ dependency = FALSE

\* C5: one check_dependency() call runs the installer at most once, and not at
\* all when ase is importable at the start; a register() whose install failed
\* has run it once and ends with the operator not registered.
C5_NoRetries ==
    /\ cd.runs <= 1
    /\ (cd.start # "fail") => cd.runs = 0
    /\ (RegisterReturned /\ (cd.installer = "nonzero" \/ cd.reimport = "fail")) =>
        /\ cd.runs = 1
        /\ ~OperatorRegistered
        /\ ~MenuEntryPresent

C5_Witness ==
    /\ RegisterReturned
    /\ cd.installer = "nonzero"
    /\ cd.runs = 1
    /\ ~OperatorRegistered

\* C6: check_dependency() leaves sys.path as it was when ase is importable at
\* the start and when the installer fails; after a successful installer run
\* install_path is in sys.path as often as before if it was there, once more
\* if it was not, and never twice.
C6_PathOnlyOnInstall ==
    /\ Count(sys_path, install_path) <= 1
    /\ (cd.start = "ok") => sys_path = cd.path0
    /\ (cd.start = "fail" /\ cd.installer # "zero") => sys_path = cd.path0
    /\ (cd.installer = "zero" /\ pc = "L197") => sys_path = cd.path0
    /\ (cd.installer = "zero" /\ pc # "L197") =>
        /\ Contains(cd.path0, install_path) => sys_path = cd.path0
        /\ ~Contains(cd.path0, install_path) =>
            /\ sys_path = Append(cd.path0, install_path)
            /\ Count(sys_path, install_path) = Count(cd.path0, install_path) + 1

\* a second successful installer run, the path added by the first
C6_Witness ==
    /\ pc = "L200"
    /\ cd.installer = "zero"
    /\ Contains(cd.path0, install_path)
    /\ \E k \in DOMAIN history : history[k].call = "register"
    /\ install_failed

\* C7: execute makes one import_ase_molecule call per element of self.files,
\* in list order, the i-th with filepath = join(self.directory, files[i].name)
\* and filename = files[i].name, and reaches `return {"FINISHED"}` with as
\* many calls as files (none for an empty list); invoke makes no call and
\* returns {'RUNNING_MODAL'}.  The formula covers execute while it runs and
\* after it has returned {"FINISHED"}.
C7_OneCallPerFile ==
    /\ (pc = "modal") => (calls = <<>> /\ opResult = "RUNNING_MODAL")
    /\ (pc \in {"L151", "L167"} \/ opResult = "FINISHED") =>
        /\ Len(calls) = self.i - 1
        /\ Len(calls) <= Len(self.files)
        /\ \A k \in DOMAIN calls :
            /\ calls[k].filepath = join(self.directory, self.files[k].name)
            /\ calls[k].filename = self.files[k].name
    /\ (pc = "L167" \/ opResult = "FINISHED") => Len(calls) = Len(self.files)
    /\ (pc \in {"L151", "L167"}) => opResult = "none"

C7_Witness ==
    /\ opResult = "FINISHED"
    /\ Len(self.files) = 2
    /\ self.files[1].name # self.files[2].name
    /\ self.directory = <<"/", "d">>
    /\ calls[2].filepath = <<"/", "d", "/", "b", ".", "x">>
    /\ calls[2].filename = <<"b", ".", "x">>

KwNames ==
    {"resolution", "color", "colorbonds", "fix_bonds", "scale", "unit_cell",
     "representation", "read_density", "shift_cell", "imageslice", "animate",
     "outline", "overwrite", "add_supercell"}

C9_FailedOnlyIfUnregistered ==
    (pc = "idle" /\ install_failed) => ~OperatorRegistered

\* C10: between calls, also after calls that ended with an exception, the
\* import menu holds menu_func_import if and only if the operator class is
\* registered; and the operator class is registered only while the
\* preferences class is.
C10_MenuPairedWithOperator ==
    /\ (pc = "idle") => (MenuEntryPresent <=> OperatorRegistered)
    /\ OperatorRegistered => PreferencesRegistered

\* the operator registered after a register() that aborted in the installer
C10_Witness ==
    /\ pc = "idle"
    /\ OperatorRegistered
    /\ MenuEntryPresent
    /\ \E k \in DOMAIN history : history[k].outcome = "OSError"

=============================================================================
